---------------------------- MODULE Spec2Model ----------------------------
(***************************************************************************)
(* A model of pleiades/simData.py: the cross-section file parser           *)
(* (parse_xs_file), the Isotope record with its load step                  *)
(* (Isotope.load_xs_data) and the transmission calculator                  *)
(* (create_transmission).                                                  *)
(*                                                                         *)
(* Text is modelled as sequences of one-character strings, so substring    *)
(* search, startswith and split are computed on characters.  Floating      *)
(* point numbers are modelled as exact fractions n/d extended with the     *)
(* IEEE values +inf (1/0), -inf (-1/0) and nan (0/0); rounding is not      *)
(* modelled.                                                               *)
(***************************************************************************)
EXTENDS Integers, Sequences, FiniteSets, TLC

VARIABLES file, isotope, ret

vars == <<file, isotope, ret>>

(***************************************************************************)
(* Bounds of the model.                                                    *)
(***************************************************************************)
MaxLines == 4
MaxGrid == 2

(***************************************************************************)
(* Floating point values as fractions.                                     *)
(***************************************************************************)
Abs(x) == IF x < 0 THEN -x ELSE x

Sign(x) == IF x < 0 THEN -1 ELSE IF x > 0 THEN 1 ELSE 0

RECURSIVE GCD(_, _)
GCD(a, b) == IF b = 0 THEN a ELSE GCD(b, a % b)

\* The value n/d in lowest terms with d >= 0; d = 0 encodes inf, -inf, nan.
FloatOf(n, d) ==
    LET s == IF d < 0 THEN -1 ELSE 1
        nn == s * n
        dd == s * d
    IN  IF dd = 0 THEN [n |-> Sign(nn), d |-> 0]
        ELSE LET g == GCD(Abs(nn), dd) IN [n |-> nn \div g, d |-> dd \div g]

NaN == [n |-> 0, d |-> 0]
IsFinite(a) == a.d # 0
IsNaN(a) == a.d = 0 /\ a.n = 0

FNeg(a) == [n |-> -a.n, d |-> a.d]

FMul(a, b) ==
    IF a.d = 0 \/ b.d = 0 THEN FloatOf(Sign(a.n) * Sign(b.n), 0)
    ELSE LET g1 == GCD(Abs(a.n), b.d)
             g2 == GCD(Abs(b.n), a.d)
         IN  FloatOf((a.n \div g1) * (b.n \div g2), (a.d \div g2) * (b.d \div g1))

FAdd(a, b) ==
    IF IsNaN(a) \/ IsNaN(b) THEN NaN
    ELSE IF a.d = 0 /\ b.d = 0 THEN (IF a.n = b.n THEN a ELSE NaN)
    ELSE IF a.d = 0 THEN a
    ELSE IF b.d = 0 THEN b
    ELSE FloatOf(a.n * b.d + b.n * a.d, a.d * b.d)

FSub(a, b) == FAdd(a, FNeg(b))

\* IEEE division as numpy performs it: x/0 is inf or nan, never an exception.
FDiv(a, b) ==
    IF IsNaN(a) \/ IsNaN(b) THEN NaN
    ELSE IF a.d = 0 /\ b.d = 0 THEN NaN
    ELSE IF a.d = 0 THEN FloatOf(a.n * (IF b.n < 0 THEN -1 ELSE 1), 0)
    ELSE IF b.d = 0 THEN FloatOf(0, 1)
    ELSE IF b.n = 0 THEN FloatOf(Sign(a.n), 0)
    ELSE FMul(a, [n |-> Sign(b.n) * b.d, d |-> Abs(b.n)])

FLess(a, b) == a.n * b.d < b.n * a.d

FLeq(a, b) == a.n * b.d <= b.n * a.d

(***************************************************************************)
(* Text.                                                                   *)
(***************************************************************************)
Whitespace == {" ", "\t", "\n"}

Digits == {"0", "1", "2", "3", "4", "5", "6", "7", "8", "9"}

DigitVal(c) ==
    CASE c = "0" -> 0 [] c = "1" -> 1 [] c = "2" -> 2 [] c = "3" -> 3
      [] c = "4" -> 4 [] c = "5" -> 5 [] c = "6" -> 6 [] c = "7" -> 7
      [] c = "8" -> 8 [] c = "9" -> 9

\* Python's `sub in line`.
Contains(sub, line) ==
    \E i \in 1..(Len(line) - Len(sub) + 1) :
        SubSeq(line, i, i + Len(sub) - 1) = sub

\* Python's line.startswith(c) for a one-character prefix.
StartsWith(line, c) == Len(line) > 0 /\ line[1] = c

\* Python's line.split(): the maximal runs of non-whitespace characters.
RECURSIVE SplitFrom(_, _, _, _)
SplitFrom(line, i, cur, acc) ==
    IF i > Len(line)
    THEN IF cur = <<>> THEN acc ELSE Append(acc, cur)
    ELSE IF line[i] \in Whitespace
         THEN SplitFrom(line, i + 1, <<>>,
                        IF cur = <<>> THEN acc ELSE Append(acc, cur))
         ELSE SplitFrom(line, i + 1, Append(cur, line[i]), acc)

Split(line) == SplitFrom(line, 1, <<>>, <<>>)

RECURSIVE Pow10(_)
Pow10(k) == IF k = 0 THEN 1 ELSE 10 * Pow10(k - 1)

RECURSIVE DigitsValue(_, _, _)
DigitsValue(tok, i, acc) ==
    IF i > Len(tok) THEN acc
    ELSE IF tok[i] = "." THEN DigitsValue(tok, i + 1, acc)
    ELSE DigitsValue(tok, i + 1, 10 * acc + DigitVal(tok[i]))

\* The tokens float() accepts, restricted to plain decimals: digits with at
\* most one point and at least one digit.
IsFloat(tok) ==
    /\ \A i \in 1..Len(tok) : tok[i] \in Digits \cup {"."}
    /\ Cardinality({i \in 1..Len(tok) : tok[i] = "."}) <= 1
    /\ \E i \in 1..Len(tok) : tok[i] \in Digits

\* Python's float(tok) on such a token.
Float(tok) ==
    LET dots == {i \in 1..Len(tok) : tok[i] = "."}
        frac == IF dots = {} THEN 0 ELSE Len(tok) - (CHOOSE i \in dots : TRUE)
    IN  FloatOf(DigitsValue(tok, 1, 0), Pow10(frac))


(***************************************************************************)
(* Exceptions and their messages.  A message is a sequence of parts: a     *)
(* literal piece of text, or a value substituted by format()/an f-string.  *)
(***************************************************************************)
Lit(text) == [kind |-> "lit", text |-> text]

Val(kind, v) == [kind |-> kind, text |-> v]

NoScan == [read |-> 0, capture_data |-> FALSE, isotope_xs_found |-> FALSE]

Returned(op, value, scan) ==
    [op |-> op, raised |-> FALSE, exc |-> "", site |-> "", message |-> <<>>,
     value |-> value, grid |-> <<>>, scan |-> scan]

Raised(op, exc, site, message, scan) ==
    [op |-> op, raised |-> TRUE, exc |-> exc, site |-> site,
     message |-> message, value |-> <<>>, grid |-> <<>>, scan |-> scan]

(***************************************************************************)
(* parse_xs_file                                                           *)
(***************************************************************************)
DataMarker == <<"#", "d", "a", "t", "a", ".", ".", ".">>

EndMarker == <<"/", "/">>

MeVToEV == 1000000

\* The loop's variables before the first line is read.
ScanInit ==
    [xs_data |-> <<>>, isotope_xs_found |-> FALSE, capture_data |-> FALSE,
     read |-> 0, stop |-> FALSE, error |-> FALSE]

\* if isotope_name in line: isotope_xs_found = True
NameSeen(st, isotope_name, line) ==
    [st EXCEPT !.isotope_xs_found = @ \/ Contains(isotope_name, line)]

\* if "#data..." in line: capture_data = True
OnDataMarker(st) == [st EXCEPT !.capture_data = TRUE]

\* elif '//' in line: capture_data = False; break
OnEndMarker_nobreak(st) == [st EXCEPT !.capture_data = FALSE]

OnEndMarker(st) == [st EXCEPT !.capture_data = FALSE, !.stop = TRUE]

\* energy_eV, xs = line.split(); xs_data.append((float(energy_eV)*1E6, float(xs)))
\* The unpacking of anything but two tokens, and float() of a token that is
\* no number, raise ValueError out of the loop.
OnDataLine_noconv(st, line) ==
    LET toks == Split(line) IN
    IF Len(toks) # 2 \/ ~IsFloat(toks[1]) \/ ~IsFloat(toks[2])
    THEN [st EXCEPT !.error = TRUE, !.stop = TRUE]
    ELSE [st EXCEPT !.xs_data = Append(@, <<Float(toks[1]), Float(toks[2])>>)]

OnDataLine(st, line) ==
    LET toks == Split(line) IN
    IF Len(toks) # 2 \/ ~IsFloat(toks[1]) \/ ~IsFloat(toks[2])
    THEN [st EXCEPT !.error = TRUE, !.stop = TRUE]
    ELSE [st EXCEPT !.xs_data =
            Append(@, <<FMul(Float(toks[1]), FloatOf(MeVToEV, 1)), Float(toks[2])>>)]

\* One iteration of `for line in f`.
ScanStep(st, isotope_name, line) ==
    LET s1 == NameSeen([st EXCEPT !.read = @ + 1], isotope_name, line) IN
    IF ~s1.isotope_xs_found THEN s1
    ELSE IF Contains(DataMarker, line) THEN OnDataMarker(s1)
    ELSE IF Contains(EndMarker, line) THEN OnEndMarker(s1)
    ELSE IF s1.capture_data /\ ~StartsWith(line, "#") THEN OnDataLine(s1, line)
    ELSE s1

RECURSIVE ScanLines(_, _, _)
ScanLines(st, isotope_name, lines) ==
    IF st.stop \/ st.read >= Len(lines) THEN st
    ELSE ScanLines(ScanStep(st, isotope_name, lines[st.read + 1]),
                   isotope_name, lines)

\* if not isotope_xs_found: raise ValueError(...)
NotFound_orEmpty(st) == ~st.isotope_xs_found \/ st.xs_data = <<>>

NotFound(st) == ~st.isotope_xs_found

NotFoundMessage(isotope_name, file_location) ==
    <<Lit("Cross-section data for "), Val("isotope_name", isotope_name),
      Lit(" not found in "), Val("file_location", file_location)>>

FormatMessage == <<Lit("could not convert string to float / wrong number of values to unpack")>>

parse_xs_file(lines, file_location, isotope_name) ==
    LET st == ScanLines(ScanInit, isotope_name, lines)
        scan == [read |-> st.read, capture_data |-> st.capture_data,
                 isotope_xs_found |-> st.isotope_xs_found]
    IN  IF st.error
        THEN Raised("parse_xs_file", "ValueError", "format", FormatMessage, scan)
        ELSE IF NotFound(st)
        THEN Raised("parse_xs_file", "ValueError", "not_found",
                    NotFoundMessage(isotope_name, file_location), scan)
        ELSE Returned("parse_xs_file", st.xs_data, scan)

(***************************************************************************)
(* class Isotope                                                           *)
(***************************************************************************)
Isotope(name, atomic_mass, thickness, thickness_unit, abundance, xs_file_location, density, density_unit) ==
    [name |-> name, atomic_mass |-> atomic_mass, thickness |-> thickness,
     thickness_unit |-> thickness_unit, abundance |-> abundance,
     xs_file_location |-> xs_file_location, density |-> density,
     density_unit |-> density_unit, xs_data |-> <<>>]

EmptyLoadMessage(iso) ==
    <<Lit("No data loaded for "), Val("isotope_name", iso.name),
      Lit(" from "), Val("file_location", iso.xs_file_location)>>

\* if not self.xs_data: raise ValueError(...)
LoadIsEmpty_never(xs_data) == FALSE

LoadIsEmpty(xs_data) == xs_data = <<>>

\* Isotope.load_xs_data: the pair of the isotope afterwards and the outcome.
load_xs_data(iso, lines) ==
    LET r == parse_xs_file(lines, iso.xs_file_location, iso.name) IN
    IF r.raised
    THEN [iso |-> iso, ret |-> [r EXCEPT !.op = "load_xs_data"]]
    ELSE LET loaded == [iso EXCEPT !.xs_data = r.value] IN
         IF LoadIsEmpty(loaded.xs_data)
         THEN [iso |-> loaded,
               ret |-> Raised("load_xs_data", "ValueError", "empty_load",
                              EmptyLoadMessage(loaded), r.scan)]
         ELSE [iso |-> loaded, ret |-> Returned("load_xs_data", <<>>, r.scan)]

(***************************************************************************)
(* create_transmission                                                     *)
(***************************************************************************)
\* AVOGADRO = 6.02214076E23 and CM2_TO_BARN = 1E24, both in units of 1E24.
\* AVOGADRO is rounded to four digits (6.022E23) to keep the fractions of the
\* model within TLC's integers.
AVOGADRO == FloatOf(6022, 10000)

CM2_TO_BARN == FloatOf(1, 1)

ThicknessUnitOk_default(thickness_unit) ==
    thickness_unit \in {"cm", "mm", "atoms/cm2"}

ThicknessUnitOk(thickness_unit) == thickness_unit \in {"cm", "mm"}

DensityUnitOk(density_unit) == density_unit = "g/cm3"

\* The local `thickness` after the unit handling: thickness /= 10.0 for "mm".
LocalThickness(iso) ==
    IF iso.thickness_unit = "mm"
    THEN FDiv(iso.thickness, FloatOf(10, 1))
    ELSE iso.thickness

\* areal_density = thickness * density * AVOGADRO / atomic_mass / CM2_TO_BARN
\* (atomic_mass is not zero here: Python raises ZeroDivisionError first).
ArealDensity(thickness, density, atomic_mass) ==
    FDiv(FDiv(FMul(FMul(thickness, density), AVOGADRO), atomic_mass), CM2_TO_BARN)

\* interp1d sorts the table by energy with a stable sort (assume_sorted=False).
RECURSIVE InsertRow(_, _)
InsertRow(sorted, row) ==
    IF sorted = <<>> THEN <<row>>
    ELSE IF FLess(row[1], Head(sorted)[1]) THEN <<row>> \o sorted
    ELSE <<Head(sorted)>> \o InsertRow(Tail(sorted), row)

RECURSIVE SortRows(_)
SortRows(rows) ==
    IF rows = <<>> THEN <<>>
    ELSE InsertRow(SortRows(SubSeq(rows, 1, Len(rows) - 1)), rows[Len(rows)])

\* numpy.searchsorted(x, x_new), side left: how many x lie below x_new.
SearchSorted(table, x_new) ==
    Cardinality({i \in 1..Len(table) : FLess(table[i][1], x_new)})

\* numpy.clip(a, lo, hi) = minimum(maximum(a, lo), hi).
Clip(a, lo, hi) ==
    LET m == IF a < lo THEN lo ELSE a IN IF m > hi THEN hi ELSE m

\* table[k] for a zero-based numpy index k, where -1 is the last entry.
At(table, k) == IF k < 0 THEN table[Len(table) + 1 + k] ELSE table[k + 1]

\* interp1d(kind='linear', fill_value="extrapolate") called at x_new:
\* the segment is chosen by searchsorted clipped to [1, len-1], and
\* y_new = slope * (x_new - x_lo) + y_lo.
InterpolateXs(table, x_new) ==
    LET hi == Clip(SearchSorted(table, x_new), 1, Len(table) - 1)
        lo == hi - 1
        x_lo == At(table, lo)[1]
        x_hi == At(table, hi)[1]
        y_lo == At(table, lo)[2]
        y_hi == At(table, hi)[2]
        slope == FDiv(FSub(y_hi, y_lo), FSub(x_hi, x_lo))
    IN  FAdd(FMul(slope, FSub(x_new, x_lo)), y_lo)

\* np.exp(e), kept symbolic: the exponential of the exponent e.
NpExp(e) == [exp_of |-> e]

\* transmission.append((energy, np.exp(-xs * areal_density)))
TransmissionEntry(energy, table, areal_density) ==
    <<energy, NpExp(FMul(FNeg(InterpolateXs(table, energy)), areal_density))>>

TransmissionCurve_reversed(energy_grid, table, areal_density) ==
    [i \in 1..Len(energy_grid) |->
        TransmissionEntry(energy_grid[Len(energy_grid) + 1 - i], table,
                          areal_density)]

TransmissionCurve(energy_grid, table, areal_density) ==
    [i \in 1..Len(energy_grid) |->
        TransmissionEntry(energy_grid[i], table, areal_density)]

\* The messages are plain string literals: nothing is substituted for the
\* braces.
ThicknessUnitMessage(iso) ==
    <<Lit("Unsupported thickness unit: {thickness_unit} for {isotope_name}")>>

DensityUnitMessage(iso) ==
    <<Lit("Unsupported density unit:{density_unit} for {isotope_name}")>>

\* energies_eV, cross_sections = zip(*xs_data): zip of no rows yields nothing
\* to unpack into the two names, and the unpacking raises ValueError.
OnEmptyData_returns(energy_grid) == Returned("create_transmission", <<>>, NoScan)

OnEmptyData(energy_grid) ==
    Raised("create_transmission", "ValueError", "unpack",
           <<Lit("not enough values to unpack (expected 2, got 0)")>>, NoScan)

create_transmission(energy_grid, iso) ==
    LET out ==
        IF ~ThicknessUnitOk(iso.thickness_unit)
        THEN Raised("create_transmission", "ValueError", "thickness_unit",
                    ThicknessUnitMessage(iso), NoScan)
        ELSE IF ~DensityUnitOk(iso.density_unit)
        THEN Raised("create_transmission", "ValueError", "density_unit",
                    DensityUnitMessage(iso), NoScan)
        ELSE IF iso.atomic_mass = FloatOf(0, 1)
        THEN Raised("create_transmission", "ZeroDivisionError", "atomic_mass",
                    <<Lit("float division by zero")>>, NoScan)
        ELSE IF iso.xs_data = <<>>
        THEN OnEmptyData(energy_grid)
        ELSE Returned("create_transmission",
                      TransmissionCurve(energy_grid, SortRows(iso.xs_data),
                          ArealDensity(LocalThickness(iso), iso.density,
                                       iso.atomic_mass)),
                      NoScan)
    IN  [out EXCEPT !.grid = energy_grid]

\* The isotope after a call: the function assigns to its locals only.
IsotopeAfterCreate_writeback(iso) ==
    IF ThicknessUnitOk(iso.thickness_unit)
    THEN [iso EXCEPT !.thickness = LocalThickness(iso)]
    ELSE iso

IsotopeAfterCreate(iso) == iso

(***************************************************************************)
(* Inputs.                                                                 *)
(***************************************************************************)
NameA == <<"A">>

FileLocation == "xs_file"

NameLine == <<"A">>
MarkerLine == DataMarker
EndLine == EndMarker
CommentLine == <<"#", "c">>
HeaderLine == <<"#", "A", "B">>
Data1 == <<"1", ".", "0", " ", "2", ".", "5">>
Data2 == <<"2", ".", "0", " ", "3", ".", "0">>
Data3 == <<"2", ".", "0", " ", "0", ".", "5">>
Data4 == <<"1", ".", "0", " ", "0", ".", "5">>
ShortLine == <<"1", ".", "0">>
WordLine == <<"x", " ", "2", ".", "5">>
MarkerEndLine == DataMarker \o EndMarker

\* The lines files are made of in the parser's specification.
Lines ==
    {NameLine, HeaderLine, MarkerLine, EndLine, CommentLine, Data1, Data2,
     ShortLine, MarkerEndLine}

RECURSIVE SeqsUpTo(_, _)
SeqsUpTo(S, n) ==
    IF n = 0 THEN {<<>>}
    ELSE LET shorter == SeqsUpTo(S, n - 1) IN
         shorter \cup {Append(f, x) : f \in {g \in shorter : Len(g) = n - 1}, x \in S}

ExampleFile == <<NameLine, MarkerLine, Data1, Data2, EndLine>>
TwoBlockFile == <<NameLine, MarkerLine, Data1, EndLine, NameLine, MarkerLine, Data2, EndLine>>
WordFile == <<NameLine, MarkerLine, WordLine>>
DecreasingFile == <<NameLine, MarkerLine, Data1, Data3>>
UnsortedFile == <<NameLine, MarkerLine, Data3, Data1>>
DuplicateFile == <<NameLine, MarkerLine, Data1, Data4>>
SinglePointFile == <<NameLine, MarkerLine, Data1, EndLine>>
EmptyBlockFile == <<NameLine, MarkerLine, EndLine>>

ParseFiles == SeqsUpTo(Lines, MaxLines) \cup {ExampleFile, TwoBlockFile, WordFile}

TransFiles ==
    {DecreasingFile, UnsortedFile, DuplicateFile, SinglePointFile, EmptyBlockFile}

Thicknesses == {FloatOf(0, 1), FloatOf(5, 1)}
ThicknessUnits == {"cm", "mm", "atoms/cm2"}
Densities == {FloatOf(0, 1), FloatOf(1, 1)}
DensityUnits == {"g/cm3", "kg/m3"}
AtomicMasses == {FloatOf(0, 1), FloatOf(1, 1)}

GridEnergies == {FloatOf(1000000, 1), FloatOf(1500000, 1), FloatOf(3000000, 1)}

Grids == SeqsUpTo(GridEnergies, MaxGrid)

NoCall == Returned("none", <<>>, NoScan)

(***************************************************************************)
(* The operations.                                                         *)
(***************************************************************************)
CallParseXsFile ==
    /\ ret' = parse_xs_file(file, isotope.xs_file_location, isotope.name)
    /\ UNCHANGED <<file, isotope>>

LoadXsData ==
    LET r == load_xs_data(isotope, file) IN
    /\ isotope' = r.iso
    /\ ret' = r.ret
    /\ UNCHANGED file

CreateTransmission(energy_grid) ==
    /\ ret' = create_transmission(energy_grid, isotope)
    /\ isotope' = IsotopeAfterCreate(isotope)
    /\ UNCHANGED file

\* The parser's specification: any file of the bounded set, read for an
\* isotope built with the constructor's defaults.
InitParse ==
    /\ file \in ParseFiles
    /\ isotope = Isotope(NameA, FloatOf(0, 1), FloatOf(0, 1), "atoms/cm2",
                         FloatOf(0, 1), FileLocation, FloatOf(0, 1), "g/cm3")
    /\ ret = NoCall

NextParse == CallParseXsFile \/ LoadXsData

SpecParse == InitParse /\ [][NextParse]_vars

\* The calculator's specification: isotopes over the parameter sets, loaded
\* from one of a few files, with transmission computed on bounded grids.
InitTrans ==
    /\ file \in TransFiles
    /\ \E t \in Thicknesses, tu \in ThicknessUnits, d \in Densities,
          du \in DensityUnits, m \in AtomicMasses :
          isotope = Isotope(NameA, m, t, tu, FloatOf(0, 1), FileLocation, d, du)
    /\ ret = NoCall

NextTrans == LoadXsData \/ \E g \in Grids : CreateTransmission(g)

SpecTrans == InitTrans /\ [][NextTrans]_vars

(***************************************************************************)
(* Properties of parse_xs_file and load_xs_data, under SpecParse.          *)
(***************************************************************************)
HasName(f, i) == Contains(isotope.name, f[i])

NameInFile(f) == \E i \in 1..Len(f) : HasName(f, i)

IsMarkerLine(line) == Contains(DataMarker, line)

HasSlashes(line) == Contains(EndMarker, line)

\* The name has been seen when line i is handled.
SeenBy(f, i) == \E j \in 1..i : HasName(f, j)

\* The line that ends the scan: the first line with '//' that is no marker
\* line, among the lines at or after the first one with the name.
Terminates(f, i) ==
    /\ SeenBy(f, i) /\ HasSlashes(f[i]) /\ ~IsMarkerLine(f[i])
    /\ \A j \in 1..(i - 1) :
          ~(SeenBy(f, j) /\ HasSlashes(f[j]) /\ ~IsMarkerLine(f[j]))

BeforeEnd(f, i) == \A j \in 1..i : ~Terminates(f, j)

\* Line i is a data line of the block: (i) to (iv) of the claim.
Captured(f, i) ==
    /\ SeenBy(f, i)
    /\ \E j \in 1..(i - 1) : SeenBy(f, j) /\ IsMarkerLine(f[j])
    /\ BeforeEnd(f, i)
    /\ ~IsMarkerLine(f[i])
    /\ ~StartsWith(f[i], "#")

WellFormed(line) ==
    LET toks == Split(line) IN
    Len(toks) = 2 /\ IsFloat(toks[1]) /\ IsFloat(toks[2])

PairOf(line) ==
    LET toks == Split(line) IN
    <<FMul(Float(toks[1]), FloatOf(1000000, 1)), Float(toks[2])>>

RECURSIVE ExpectedFrom(_, _)
ExpectedFrom(f, i) ==
    IF i > Len(f) THEN <<>>
    ELSE IF Captured(f, i) THEN <<PairOf(f[i])>> \o ExpectedFrom(f, i + 1)
    ELSE ExpectedFrom(f, i + 1)

ExamplePairs ==
    << <<[n |-> 1000000, d |-> 1], [n |-> 5, d |-> 2]>>,
       <<[n |-> 2000000, d |-> 1], [n |-> 3, d |-> 1]>> >>

\* C1: when some line contains the isotope name and every captured line is
\* well-formed, parse_xs_file returns, in file order, exactly the pairs
\* (energy_MeV * 1e6, cross_section) of the lines at or after the first line
\* with the name, after a '#data...' marker line seen once the name was
\* found, before the line that ends the scan, and not starting with '#';
\* the block A, #data..., 1.0 2.5, 2.0 3.0, // yields [(1e6, 2.5), (2e6, 3.0)].
C1_ParseReturnsCapturedPairs ==
    /\ (/\ ret.op = "parse_xs_file"
        /\ NameInFile(file)
        /\ \A i \in 1..Len(file) : Captured(file, i) => WellFormed(file[i]))
       => (~ret.raised /\ ret.value = ExpectedFrom(file, 1))
    /\ (ret.op = "parse_xs_file" /\ file = ExampleFile)
       => (~ret.raised /\ ret.value = ExamplePairs)

C1_Witness ==
    /\ ret.op = "parse_xs_file"
    /\ file = <<EndLine, NameLine, MarkerLine, Data1>>
    /\ ~ret.raised
    /\ ret.value = << <<[n |-> 1000000, d |-> 1], [n |-> 5, d |-> 2]>> >>

\* C2: parse_xs_file raises the not-found error, returning no series, when
\* no line of the file contains the isotope name, and never raises it when
\* some line it read contains the name.
C2_NotFoundIffNameAbsent ==
    ret.op = "parse_xs_file" =>
        /\ ~NameInFile(file)
              => (ret.raised /\ ret.site = "not_found" /\ ret.value = <<>>)
        /\ (\E i \in 1..ret.scan.read : HasName(file, i))
              => ~(ret.raised /\ ret.site = "not_found")

C2_Witness ==
    /\ ret.op = "parse_xs_file"
    /\ ret.raised /\ ret.site = "not_found"
    /\ file = <<MarkerLine, Data1, EndLine>>
    /\ ret.scan.read = 3

\* The result of reading only the first i lines of the file.
ParseOfPrefix(i) ==
    parse_xs_file(SubSeq(file, 1, i), isotope.xs_file_location, isotope.name)

\* C3 as stated: once the name has been seen, any line containing '//' that
\* the scan reaches sets capturing to false and ends the scan: no later line
\* is read and none contributes to the result.
C3_AnySlashLineEndsScan ==
    ret.op = "parse_xs_file" =>
        \A i \in 1..Len(file) :
            (SeenBy(file, i) /\ HasSlashes(file[i]) /\ ret.scan.read >= i)
            => /\ ret.scan.read = i
               /\ ~ret.scan.capture_data
               /\ ret.value = ParseOfPrefix(i).value

\* C3 as amended: once the name has been seen, a line containing '//' and not
\* containing '#data...' that the scan reaches sets capturing to false and
\* ends the scan: no later line is read and none contributes to the result,
\* even if another block for the same name follows.
C3_SlashLineEndsScan ==
    ret.op = "parse_xs_file" =>
        \A i \in 1..Len(file) :
            (/\ SeenBy(file, i) /\ HasSlashes(file[i])
             /\ ~IsMarkerLine(file[i]) /\ ret.scan.read >= i)
            => /\ ret.scan.read = i
               /\ ~ret.scan.capture_data
               /\ ~ret.raised
               /\ ret.value = ParseOfPrefix(i).value

C3_Witness ==
    /\ ret.op = "parse_xs_file"
    /\ file = TwoBlockFile
    /\ ret.scan.read = 4
    /\ Len(ret.value) = 1

\* C6: when load_xs_data returns without raising, isotope.xs_data is
\* non-empty; when the name is found in the file and no data row is
\* captured, load_xs_data raises instead of returning.
C6_LoadEndsNonEmpty ==
    ret.op = "load_xs_data" =>
        /\ ~ret.raised => isotope.xs_data # <<>>
        /\ (NameInFile(file) /\ \A i \in 1..Len(file) : ~Captured(file, i))
              => (ret.raised /\ ret.site = "empty_load")

C6_Witness ==
    /\ ret.op = "load_xs_data"
    /\ file = EmptyBlockFile
    /\ ret.raised /\ ret.site = "empty_load"

(***************************************************************************)
(* Properties of create_transmission, under SpecTrans.                     *)
(***************************************************************************)
IsCall == ret.op = "create_transmission"

ValidUnits ==
    /\ isotope.thickness_unit \in {"cm", "mm"}
    /\ isotope.density_unit = "g/cm3"

UnitError == ret.raised /\ ret.site \in {"thickness_unit", "density_unit"}

Zero == [n |-> 0, d |-> 1]

\* The same isotope with its thickness given in cm.
InCentimetres(iso) ==
    [iso EXCEPT !.thickness_unit = "cm",
                !.thickness = FDiv(iso.thickness, [n |-> 10, d |-> 1])]

\* C4: create_transmission raises a unit error and produces no curve
\* whenever thickness_unit is neither 'cm' nor 'mm' or density_unit is not
\* 'g/cm3', whatever the other fields and the grid; with valid units it
\* raises no unit error, and with 'mm' the thickness is divided by 10 before
\* use (the curve is that of the same isotope with thickness/10 cm).
C4_UnitsRejectedFirst ==
    IsCall =>
        /\ ~ValidUnits => (UnitError /\ ret.value = <<>>)
        /\ ValidUnits => ~UnitError
        /\ (isotope.thickness_unit = "mm" /\ ~ret.raised)
              => ret.value =
                    create_transmission(ret.grid, InCentimetres(isotope)).value

C4_Witness ==
    /\ IsCall
    /\ isotope.thickness_unit = "atoms/cm2"
    /\ isotope.density_unit = "g/cm3"
    /\ isotope.xs_data # <<>>
    /\ isotope.atomic_mass # Zero
    /\ ret.raised /\ ret.site = "thickness_unit"

\* C5: create_transmission on an isotope with empty xs_data and valid units
\* raises and returns no curve, for every grid, the empty one included; a
\* curve is returned only when xs_data is populated.
C5_EmptyDataRaises ==
    IsCall =>
        /\ (isotope.xs_data = <<>> /\ ValidUnits)
              => (ret.raised /\ ret.value = <<>>)
        /\ ~ret.raised => isotope.xs_data # <<>>

C5_Witness ==
    /\ IsCall
    /\ isotope.xs_data = <<>>
    /\ ValidUnits
    /\ isotope.atomic_mass # Zero
    /\ ret.grid = <<>>
    /\ ret.raised /\ ret.site = "unpack"

CurveFollowsGrid ==
    /\ ~ret.raised
    /\ Len(ret.value) = Len(ret.grid)
    /\ \A i \in 1..Len(ret.grid) : ret.value[i][1] = ret.grid[i]

\* C7 as stated: for every grid and every isotope with valid units and
\* non-empty xs_data, create_transmission returns a curve with one entry per
\* grid point, in grid order, the energy of entry i being grid value i; a
\* zero-length grid yields an empty curve and no error.
C7_CurveFollowsGrid ==
    (IsCall /\ ValidUnits /\ isotope.xs_data # <<>>) => CurveFollowsGrid

\* C7 as amended: the same, for isotopes whose atomic_mass is not zero.
C7_CurveFollowsGridNonZeroMass ==
    (IsCall /\ ValidUnits /\ isotope.xs_data # <<>> /\ isotope.atomic_mass # Zero)
        => CurveFollowsGrid

C7_Witness ==
    /\ IsCall
    /\ ValidUnits
    /\ ~ret.raised
    /\ Len(ret.grid) = 2
    /\ FLess(ret.grid[2], ret.grid[1])
    /\ ret.value[1][1] = ret.grid[1]

\* The transmission exp(e) lies in (0, 1]: e is a finite number, at most 0.
InUnitInterval(t) == IsFinite(t.exp_of) /\ t.exp_of.n <= 0

NonNegativeInputs ==
    /\ FLeq(Zero, isotope.thickness)
    /\ FLeq(Zero, isotope.density)
    /\ FLess(Zero, isotope.atomic_mass)
    /\ \A i \in 1..Len(isotope.xs_data) : FLeq(Zero, isotope.xs_data[i][2])

\* C8: every entry of a returned curve has transmission in (0, 1] when the
\* thickness and density are non-negative, atomic_mass is positive and the
\* tabulated cross-sections are non-negative: the exponent is non-positive
\* at every grid energy, those outside the tabulated range included.
C8_TransmissionInUnitInterval ==
    (IsCall /\ ~ret.raised /\ NonNegativeInputs)
        => \A i \in 1..Len(ret.value) : InUnitInterval(ret.value[i][2])

\* C9: a call of create_transmission leaves every field of the isotope as
\* it was, on return and on error alike (the thickness is not divided by 10
\* for 'mm'), and a call repeated with the same grid gives the same outcome.
C9_IsotopeUnchanged ==
    [][ret'.op = "create_transmission"
          => /\ isotope' = isotope
             /\ (ret.op = "create_transmission" /\ ret'.grid = ret.grid)
                   => ret' = ret]_vars

C9_Witness ==
    /\ IsCall
    /\ isotope.thickness_unit = "mm"
    /\ isotope.thickness = [n |-> 5, d |-> 1]
    /\ ~ret.raised
    /\ ret.grid # <<>>

Mentions(message, kind, v) ==
    \E i \in 1..Len(message) : message[i].kind = kind /\ message[i].text = v

\* C10: every error the engine raises names the isotope and the file or
\* unit value at fault: the not-found and empty-load errors carry the
\* isotope name and the file location, the unit errors the isotope name and
\* the rejected thickness_unit or density_unit.
C10_MessagesNameTheFault ==
    ret.raised =>
        /\ ret.site \in {"not_found", "empty_load"}
              => /\ Mentions(ret.message, "isotope_name", isotope.name)
                 /\ Mentions(ret.message, "file_location", isotope.xs_file_location)
        /\ ret.site = "thickness_unit"
              => /\ Mentions(ret.message, "isotope_name", isotope.name)
                 /\ Mentions(ret.message, "thickness_unit", isotope.thickness_unit)
        /\ ret.site = "density_unit"
              => /\ Mentions(ret.message, "isotope_name", isotope.name)
                 /\ Mentions(ret.message, "density_unit", isotope.density_unit)

=============================================================================
